---- MODULE Spec2Model ----
(***************************************************************************)
(* Model of the Charo live-trading core: livetrading/LiveTrader.py (tick   *)
(* callback, stop monitor, bar aggregation, position reconciliation,       *)
(* cleanup) and the run_live orchestration loop of main.py.                *)
(*                                                                         *)
(* Time is counted in whole units; one bar is BarLength units long.  The    *)
(* pandas frames _tick_data and _raw_data are modelled by their time index  *)
(* (the price columns never steer the control flow of LiveTrader).  The    *)
(* broker (tpqoa.create_order) and the strategy (define_strategy of a      *)
(* subclass) are the environment: their answers are drawn from small sets. *)
(***************************************************************************)
EXTENDS Integers, Sequences, FiniteSets, TLC

VARIABLES
  pc,             \* where the process is: init, history, stream, live, dying, exit, unit
  position,       \* self._position
  profits,        \* self._profits, the profit ledger
  profit,         \* self._profit
  stop_stream,    \* self.stop_stream
  stop_datetime,  \* self._stop_datetime
  stop_loss,      \* self._stop_loss
  stop_profit,    \* self._stop_profit
  tick_data,      \* index of self._tick_data (the open buffer)
  raw_data,       \* index of self._raw_data (the closed bars)
  last_tick,      \* self._last_tick
  data_position,  \* self._data["position"].iloc[-1], the desired position
  now,            \* timestamp of the most recent tick of the stream
  orders,         \* broker side: every order sent, in order (signed units)
  filled,         \* broker side: net units filled since session start
  calls,          \* number of calls made so far (ticks, loop turns, direct calls)
  call,           \* what the most recent call did
  last_ok,        \* desired position of the last reconciliation that succeeded
  failed,         \* some order of the run has failed
  followed,       \* how many leading trade() calls matched Scenario, -1 once off it
  days,           \* the lookback setup_history asks the broker for
  series,         \* a series of timestamped mid prices handed to both resamplings
  hist,           \* the bars setup_history's resampling makes of series
  live            \* the bars on_success's resampling makes of series

vars == <<pc, position, profits, profit, stop_stream, stop_datetime, stop_loss,
          stop_profit, tick_data, raw_data, last_tick, data_position, now,
          orders, filled, calls, call, last_ok, failed, followed, days,
          series, hist, live>>

trader == <<position, profits, profit>>
config == <<stop_datetime, stop_loss, stop_profit>>
bars == <<tick_data, raw_data, last_tick>>
broker == <<orders, filled>>
ghost == <<last_ok, failed, followed>>
frames == <<series, hist, live>>

----------------------------------------------------------------------------
(* Bounds and inputs *)

\* an optional value: None, or Some(v) holding v
None == <<>>
Some(v) == <<v>>
Val(x) == x[1]

\* units per position step (UNITS of main.py)
Units == 100000
\* length of one bar in time units (GRANULARITY of main.py)
BarLength == 2

\* latest timestamp a tick may carry
MaxTime == 4
\* most ticks the stream delivers in one run
MaxTicks == 3
\* most direct calls of trade()/close_position() in one run
MaxCalls == 5
\* most orders the broker accepts in one run
MaxOrders == 3

Positions == {-1, 0, 1}
\* realized profit/loss the broker may report for one fill
PLs == {-150, -50, 200}
\* what create_order may do: fill the order, return an error result, raise
Outcomes == {"fill", "reject", "raise"}
\* stop configurations a session may be built with (numbers and a datetime,
\* as LiveTrader compares them with _profit and the tick time)
Deadlines == {None, Some(3)}
Floors == {None, Some(0), Some(-100)}
Ceilings == {None, Some(0), Some(200), Some(-200)}
\* recommendations get_deepseek_recommendation_for_bot may return
Recos == {"buy", "sell", "hold"}

----------------------------------------------------------------------------
(* Helpers *)

RECURSIVE Sum(_)
Sum(s) == IF s = <<>> THEN 0 ELSE Head(s) + Sum(Tail(s))

Abs(x) == IF x < 0 THEN -x ELSE x

RECURSIVE SumAbs(_)
SumAbs(s) == IF s = <<>> THEN 0 ELSE Abs(Head(s)) + SumAbs(Tail(s))

\* Python truth value of an optional number: None and 0 are both false
Truthy(x) == x # None /\ Val(x) # 0

\* Python truth value of an optional datetime: only None is false
TruthyDatetime(x) == x # None

\* the record of one call: the operation, the desired position it worked
\* towards, the trader's state when it began, the orders it sent, whether it
\* ended in an exception, the stop branch it took, the number of bars it
\* appended, whether it printed a swallowed error, and the orders and the
\* operation of the call before it
NoCall == [op |-> "none", d |-> None, pos0 |-> 0, profit0 |-> 0, len0 |-> 0,
           orders |-> <<>>, answer |-> "none", raised |-> FALSE,
           reason |-> "none", bars |-> 0, logged |-> FALSE,
           before |-> [op |-> "none", pos0 |-> 0, orders |-> <<>>,
                       raised |-> FALSE]]

\* the end-to-end sequence of desired positions of the design's test
Scenario == <<0, 1, 1, -1, 0>>

----------------------------------------------------------------------------
(* Broker and ledger *)

\* tpqoa.create_order(..., suppress=True, ret=True): the fill transaction, an
\* error result that lacks the fill's fields (a reject or cancel transaction,
\* or None), or an exception
create_order(units, out, pl) ==
  IF out = "fill" THEN [kind |-> "fill", units |-> units, pl |-> Some(pl)]
  ELSE IF out = "reject" THEN [kind |-> "reject", units |-> units, pl |-> None]
  ELSE [kind |-> "raise", units |-> units, pl |-> None]

\* variant: the ledger is appended to before the order's fields are read
trade_report_eager(order, ledger, total) ==
  IF order.kind = "fill"
    THEN [raised |-> FALSE, profits |-> Append(ledger, Val(order.pl)),
          profit |-> Sum(Append(ledger, Val(order.pl)))]
    ELSE [raised |-> TRUE, profits |-> Append(ledger, 0), profit |-> total]

\* variant: the running total is updated but the ledger entry is lost
trade_report_drop(order, ledger, total) ==
  IF order.kind = "fill"
    THEN [raised |-> FALSE, profits |-> ledger,
          profit |-> total + Val(order.pl)]
    ELSE [raised |-> TRUE, profits |-> ledger, profit |-> total]

\* trade_report: reads time, units, price and pl of the order (raising on a
\* result that lacks them) before it appends pl and re-sums the ledger
trade_report(order, ledger, total) ==
  IF order.kind = "fill"
    THEN [raised |-> FALSE, profits |-> Append(ledger, Val(order.pl)),
          profit |-> Sum(Append(ledger, Val(order.pl)))]
    ELSE [raised |-> TRUE, profits |-> ledger, profit |-> total]

\* variant: _position is assigned in a finally-like manner, order failed or not
submit_advance(units, target, pos, ledger, total, out, pl) ==
  LET order == create_order(units, out, pl)
      rep == IF order.kind = "raise"
               THEN [raised |-> TRUE, profits |-> ledger, profit |-> total]
               ELSE trade_report(order, ledger, total)
  IN [orders |-> <<units>>, answer |-> order.kind, raised |-> rep.raised,
      position |-> target, profits |-> rep.profits, profit |-> rep.profit]

\* one branch of trade()/close_position() that orders: create_order, then
\* trade_report, then the assignment to _position (reached only when neither
\* raised)
submit(units, target, pos, ledger, total, out, pl) ==
  LET order == create_order(units, out, pl)
      rep == IF order.kind = "raise"
               THEN [raised |-> TRUE, profits |-> ledger, profit |-> total]
               ELSE trade_report(order, ledger, total)
  IN [orders |-> <<units>>, answer |-> order.kind, raised |-> rep.raised,
      position |-> IF rep.raised THEN pos ELSE target,
      profits |-> rep.profits, profit |-> rep.profit]

\* a branch that orders nothing and only assigns _position
assign(target, ledger, total) ==
  [orders |-> <<>>, answer |-> "none", raised |-> FALSE, position |-> target,
   profits |-> ledger, profit |-> total]

----------------------------------------------------------------------------
(* Position reconciler *)

\* variant: a reversal orders one unit size instead of two
trade_half(d, pos, ledger, total, out, pl) ==
  IF d = 1 THEN
    IF pos = 0 THEN submit(Units, 1, pos, ledger, total, out, pl)
    ELSE IF pos = -1 THEN submit(Units, 1, pos, ledger, total, out, pl)
    ELSE assign(1, ledger, total)
  ELSE IF d = -1 THEN
    IF pos = 0 THEN submit(-Units, -1, pos, ledger, total, out, pl)
    ELSE IF pos = 1 THEN submit(-Units, -1, pos, ledger, total, out, pl)
    ELSE assign(-1, ledger, total)
  ELSE IF d = 0 THEN
    IF pos = 1 THEN submit(-Units, 0, pos, ledger, total, out, pl)
    ELSE IF pos = -1 THEN submit(Units, 0, pos, ledger, total, out, pl)
    ELSE assign(0, ledger, total)
  ELSE assign(pos, ledger, total)

\* variant: the long branch orders whenever the position is not short,
\* also when it is long already
trade_rebuy(d, pos, ledger, total, out, pl) ==
  IF d = 1 THEN
    IF pos = -1 THEN submit(Units * 2, 1, pos, ledger, total, out, pl)
    ELSE submit(Units, 1, pos, ledger, total, out, pl)
  ELSE IF d = -1 THEN
    IF pos = 0 THEN submit(-Units, -1, pos, ledger, total, out, pl)
    ELSE IF pos = 1 THEN submit(-(Units * 2), -1, pos, ledger, total, out, pl)
    ELSE assign(-1, ledger, total)
  ELSE IF d = 0 THEN
    IF pos = 1 THEN submit(-Units, 0, pos, ledger, total, out, pl)
    ELSE IF pos = -1 THEN submit(Units, 0, pos, ledger, total, out, pl)
    ELSE assign(0, ledger, total)
  ELSE assign(pos, ledger, total)

\* LiveTrader.trade with d = self._data["position"].iloc[-1], the column a
\* subclass's define_strategy fills (the base class leaves _data unset)
trade(d, pos, ledger, total, out, pl) ==
  IF d = 1 THEN
    IF pos = 0 THEN submit(Units, 1, pos, ledger, total, out, pl)
    ELSE IF pos = -1 THEN submit(Units * 2, 1, pos, ledger, total, out, pl)
    ELSE assign(1, ledger, total)
  ELSE IF d = -1 THEN
    IF pos = 0 THEN submit(-Units, -1, pos, ledger, total, out, pl)
    ELSE IF pos = 1 THEN submit(-(Units * 2), -1, pos, ledger, total, out, pl)
    ELSE assign(-1, ledger, total)
  ELSE IF d = 0 THEN
    IF pos = 1 THEN submit(-Units, 0, pos, ledger, total, out, pl)
    ELSE IF pos = -1 THEN submit(Units, 0, pos, ledger, total, out, pl)
    ELSE assign(0, ledger, total)
  ELSE assign(pos, ledger, total)

\* variant: the order is sent but _position is not reset
close_keep(pos, ledger, total, out, pl) ==
  IF pos # 0
    THEN submit(-(pos * Units), pos, pos, ledger, total, out, pl)
    ELSE assign(pos, ledger, total)

\* variant: the guard on a flat position is missing
close_always(pos, ledger, total, out, pl) ==
  submit(-(pos * Units), 0, pos, ledger, total, out, pl)

\* LiveTrader.close_position
close_position(pos, ledger, total, out, pl) ==
  IF pos # 0
    THEN submit(-(pos * Units), 0, pos, ledger, total, out, pl)
    ELSE assign(pos, ledger, total)

----------------------------------------------------------------------------
(* Stop monitor *)

\* variant: the loss floor is tested before the deadline
stop_check_swapped(t, deadline, floor, ceiling, total) ==
  IF Truthy(floor) /\ total < Val(floor) THEN "loss"
  ELSE IF TruthyDatetime(deadline) /\ t >= Val(deadline) THEN "deadline"
  ELSE IF Truthy(ceiling) /\ total > Val(ceiling) THEN "profit"
  ELSE "none"

\* the if/elif/elif chain at the head of on_success: which branch is taken
stop_check(t, deadline, floor, ceiling, total) ==
  IF TruthyDatetime(deadline) /\ t >= Val(deadline) THEN "deadline"
  ELSE IF Truthy(floor) /\ total < Val(floor) THEN "loss"
  ELSE IF Truthy(ceiling) /\ total > Val(ceiling) THEN "profit"
  ELSE "none"

----------------------------------------------------------------------------
(* Bar aggregation *)

\* right label of the bin [k * BarLength, (k + 1) * BarLength) that holds t
Label(t) == ((t \div BarLength) + 1) * BarLength

\* index of ticks.resample(bar_length, label="right").last().ffill(): one row
\* per bin from the first tick's bin to the last tick's bin, empty bins included
resample_ffill(ticks) ==
  IF ticks = <<>> THEN <<>>
  ELSE LET first == Label(ticks[1])
           last == Label(ticks[Len(ticks)])
           n == ((last - first) \div BarLength) + 1
       IN [i \in 1..n |-> first + (i - 1) * BarLength]

\* variant: the last, still open bar is not dropped
drop_none(s) == s

\* .iloc[:-1]
drop_last(s) == IF s = <<>> THEN <<>> ELSE SubSeq(s, 1, Len(s) - 1)

\* variant: the buffer is not cut back to the triggering tick
keep_all(s) == s

\* .iloc[-1:]
keep_last(s) == IF s = <<>> THEN <<>> ELSE <<s[Len(s)]>>

\* the bars one bar-closing tick appends to _raw_data
closed_bars(ticks) == drop_last(resample_ffill(ticks))

----------------------------------------------------------------------------
(* The session *)

\* what a call leaves behind in the trader and at the broker
Effect(eff) ==
  /\ position' = eff.position
  /\ profits' = eff.profits
  /\ profit' = eff.profit
  /\ orders' = orders \o eff.orders
  /\ filled' = IF eff.raised THEN filled ELSE filled + Sum(eff.orders)

RecordFull(op, d, eff, reason, appended, logged) ==
  call' = [op |-> op, d |-> d, pos0 |-> position, profit0 |-> profit,
           len0 |-> Len(profits), orders |-> eff.orders,
           answer |-> eff.answer, raised |-> eff.raised, reason |-> reason,
           bars |-> appended, logged |-> logged,
           before |-> [op |-> call.op, pos0 |-> call.pos0,
                       orders |-> call.orders, raised |-> call.raised]]

Record(op, d, eff, reason) == RecordFull(op, d, eff, reason, 0, FALSE)

\* the broker refused or lost the order of the call
Failure(answer) == answer \in {"reject", "raise"}

\* bookkeeping of a reconciliation towards d: it succeeded unless its order
\* failed; scenario is TRUE for a trade() call, which may follow Scenario
Reached(d, eff, scenario) ==
  /\ last_ok' = IF Failure(eff.answer) THEN last_ok ELSE d
  /\ failed' = (failed \/ Failure(eff.answer))
  /\ followed' = IF /\ scenario
                     /\ followed >= 0
                     /\ followed < Len(Scenario)
                     /\ ~Failure(eff.answer)
                     /\ d = Scenario[followed + 1]
                  THEN followed + 1
                  ELSE -1

Init ==
  /\ pc = "init"
  /\ position = 0
  /\ profits = <<>>
  /\ profit = 0
  /\ stop_stream = FALSE
  /\ stop_datetime \in Deadlines
  /\ stop_loss \in Floors
  /\ stop_profit \in Ceilings
  /\ tick_data = <<>>
  /\ raw_data = <<>>
  /\ last_tick = None
  /\ data_position = None
  /\ now = 0
  /\ orders = <<>>
  /\ filled = 0
  /\ calls = 0
  /\ call = NoCall
  /\ last_ok = 0
  /\ failed = FALSE
  /\ followed = 0
  /\ days = 1
  /\ series = <<>>
  /\ hist = <<>>
  /\ live = <<>>

\* __init__ up to the market check: closed markets raise, the half-built
\* object is dropped
MarketCheck(open) ==
  /\ pc = "init"
  /\ pc' = IF open THEN "history" ELSE "dying"
  /\ UNCHANGED <<trader, stop_stream, config, days, frames, bars, data_position, now,
                 broker, calls, call, ghost>>

\* one turn of the while True loop of setup_history (days > 0): h is the
\* label of the newest bar kept after .iloc[:-1], t the clock when the gap is
\* tested; a gap of a bar length or more goes round again
setup_history(h, t) ==
  /\ pc = "history"
  /\ t \in now..MaxTime
  /\ h <= t
  /\ raw_data' = <<h>>
  /\ last_tick' = Some(h)
  /\ now' = t
  /\ pc' = IF t - h < BarLength THEN "stream" ELSE "history"
  /\ UNCHANGED <<trader, stop_stream, config, days, frames, tick_data, data_position,
                 broker, calls, call, ghost>>

\* on_success(time, bid, ask) for a tick stamped t; d is what define_strategy
\* leaves in _data["position"], out and pl are the broker's answer to the one
\* order the call may send
on_success(t, d, out, pl) ==
  /\ pc = "stream"
  /\ calls < MaxTicks
  /\ calls' = calls + 1
  /\ t \in now..MaxTime
  /\ now' = t
  /\ LET reason == stop_check(t, stop_datetime, stop_loss, stop_profit, profit)
     IN IF reason # "none"
          THEN LET eff == close_position(position, profits, profit, out, pl)
               IN /\ stop_stream' = TRUE
                  /\ Effect(eff)
                  /\ Len(orders') <= MaxOrders
                  /\ Record("on_success", None, eff, reason)
                  /\ Reached(0, eff, FALSE)
                  /\ pc' = IF eff.raised THEN "dying" ELSE "live"
                  /\ UNCHANGED <<bars, data_position>>
          ELSE LET ticks == Append(tick_data, t)
               IN IF t - Val(last_tick) >= BarLength
                    THEN LET grown == raw_data \o closed_bars(ticks)
                             eff == trade(d, position, profits, profit, out, pl)
                         IN /\ raw_data' = grown
                            /\ tick_data' = keep_last(ticks)
                            /\ last_tick' = Some(grown[Len(grown)])
                            /\ data_position' = Some(d)
                            /\ Effect(eff)
                            /\ Len(orders') <= MaxOrders
                            /\ RecordFull("on_success", Some(d), eff, reason,
                                          Len(grown) - Len(raw_data), FALSE)
                            /\ Reached(d, eff, TRUE)
                            /\ pc' = IF eff.raised THEN "dying" ELSE "stream"
                            /\ UNCHANGED stop_stream
                    ELSE /\ tick_data' = ticks
                         /\ Record("on_success", None,
                                   assign(position, profits, profit), reason)
                         /\ UNCHANGED <<trader, broker, raw_data, last_tick,
                                        data_position, stop_stream, pc, ghost>>
  /\ UNCHANGED <<config, days, frames>>

\* the broker's stream ends without a stop: stream_data returns
StreamEnds ==
  /\ pc = "stream"
  /\ pc' = "live"
  /\ UNCHANGED <<trader, stop_stream, config, days, frames, bars, data_position, now,
                 broker, calls, call, ghost>>

\* one turn of the while True loop of run_live
run_live(reco) ==
  /\ pc = "live"
  /\ position' = IF reco = "buy" THEN 1 ELSE IF reco = "sell" THEN -1 ELSE 0
  /\ pc' = "live"
  /\ UNCHANGED <<profits, profit, stop_stream, config, days, frames, bars, data_position,
                 now, broker, calls, call, ghost>>

\* KeyboardInterrupt (or an error) ends run_live and the process winds down
Interrupt ==
  /\ pc = "live"
  /\ pc' = "dying"
  /\ UNCHANGED <<trader, stop_stream, config, days, frames, bars, data_position, now,
                 broker, calls, call, ghost>>

\* variant: the handler prints and raises again
cleanup_reraise(raised) == [propagates |-> raised, printed |-> raised]

\* the try/except Exception of __del__: what becomes of an exception raised
\* by close_position (printed as "Cleanup error ignored", not raised again)
cleanup_except(raised) == [propagates |-> FALSE, printed |-> raised]

\* __del__: close_position inside the try/except
del(out, pl) ==
  /\ pc = "dying"
  /\ LET eff == close_position(position, profits, profit, out, pl)
         handled == cleanup_except(eff.raised)
     IN /\ Effect(eff)
        /\ RecordFull("del", None, eff, "none", 0, handled.printed)
        /\ Reached(0, eff, FALSE)
        /\ pc' = IF handled.propagates THEN "crash" ELSE "exit"
  /\ UNCHANGED <<stop_stream, config, days, frames, bars, data_position, now, calls>>

Next ==
  \/ \E open \in BOOLEAN : MarketCheck(open)
  \/ \E h \in {0 - BarLength, 0}, t \in 0..1 : setup_history(h, t)
  \/ \E t \in 0..MaxTime, d \in Positions, out \in Outcomes, pl \in PLs :
       on_success(t, d, out, pl)
  \/ StreamEnds
  \/ \E reco \in Recos : run_live(reco)
  \/ Interrupt
  \/ \E out \in Outcomes, pl \in PLs : del(out, pl)

Spec == Init /\ [][Next]_vars

----------------------------------------------------------------------------
(* The reconciler on its own: trade() and close_position() called directly  *)
(* on a flat trader, any desired position, any answer of the broker; a     *)
(* caller that catches the exception of a failed order may call again.     *)

InitReconciler ==
  /\ pc = "unit"
  /\ position = 0
  /\ profits = <<>>
  /\ profit = 0
  /\ stop_stream = FALSE
  /\ stop_datetime = None
  /\ stop_loss = None
  /\ stop_profit = None
  /\ tick_data = <<>>
  /\ raw_data = <<>>
  /\ last_tick = None
  /\ data_position = None
  /\ now = 0
  /\ orders = <<>>
  /\ filled = 0
  /\ calls = 0
  /\ call = NoCall
  /\ last_ok = 0
  /\ failed = FALSE
  /\ followed = 0
  /\ days = 1
  /\ series = <<>>
  /\ hist = <<>>
  /\ live = <<>>

\* define_strategy leaves d as the desired position, then trade()
CallTrade(d, out, pl) ==
  /\ pc = "unit"
  /\ calls < MaxCalls
  /\ calls' = calls + 1
  /\ data_position' = Some(d)
  /\ LET eff == trade(d, position, profits, profit, out, pl)
     IN /\ Effect(eff)
        /\ Record("trade", Some(d), eff, "none")
        /\ Reached(d, eff, TRUE)
  /\ UNCHANGED <<pc, stop_stream, config, days, frames, bars, now>>

\* close_position()
CallClose(out, pl) ==
  /\ pc = "unit"
  /\ calls < MaxCalls
  /\ calls' = calls + 1
  /\ LET eff == close_position(position, profits, profit, out, pl)
     IN /\ Effect(eff)
        /\ Record("close", None, eff, "none")
        /\ Reached(0, eff, FALSE)
  /\ UNCHANGED <<pc, stop_stream, config, days, frames, bars, data_position, now>>

NextReconciler ==
  \/ \E d \in Positions, out \in Outcomes, pl \in PLs : CallTrade(d, out, pl)
  \/ \E out \in Outcomes, pl \in PLs : CallClose(out, pl)

SpecReconciler == InitReconciler /\ [][NextReconciler]_vars

----------------------------------------------------------------------------
(* The two resamplings on their own: the same series of timestamped mid     *)
(* prices is put through the chain of setup_history and through the chain   *)
(* of on_success.  A series maps each time of 0..MaxObsTime to None (no      *)
(* observation) or Some(price); a frame is a sequence of rows [t, v], t the  *)
(* right label of the bin and v None (NaN) or Some(price).                   *)

MaxObsTime == 5

\* mid prices
Prices == {1, 2}

Max(S) == CHOOSE x \in S : \A y \in S : y <= x
Min(S) == CHOOSE x \in S : \A y \in S : x <= y

\* times that carry an observation
ObsTimes(s) == {t \in DOMAIN s : s[t] # None}

\* .resample(bar_length, label="right").last(): one row per bin from the
\* first observation's bin to the last one's, NaN where a bin is empty
resample_last(s) ==
  IF ObsTimes(s) = {} THEN <<>>
  ELSE LET first == Label(Min(ObsTimes(s)))
           last == Label(Max(ObsTimes(s)))
           n == ((last - first) \div BarLength) + 1
           row(i) ==
             LET lab == first + (i - 1) * BarLength
                 inbin == {t \in ObsTimes(s) : Label(t) = lab}
             IN [t |-> lab, v |-> IF inbin = {} THEN None ELSE s[Max(inbin)]]
       IN [i \in 1..n |-> row(i)]

\* .ffill(): a NaN row takes the value of the nearest row before it
ffill(rows) ==
  [i \in 1..Len(rows) |->
     LET seen == {k \in 1..i : rows[k].v # None}
     IN [t |-> rows[i].t,
         v |-> IF seen = {} THEN None ELSE rows[Max(seen)].v]]

\* .dropna(): NaN rows are removed
HasValue(r) == r.v # None
dropna(rows) == SelectSeq(rows, HasValue)

\* setup_history: resample(...).last().dropna().iloc[:-1]
history_bars(s) == drop_last(dropna(resample_last(s)))

\* on_success: resample(...).last().ffill().iloc[:-1]
live_bars(s) == drop_last(ffill(resample_last(s)))

InitResample ==
  /\ pc = "resample"
  /\ position = 0
  /\ profits = <<>>
  /\ profit = 0
  /\ stop_stream = FALSE
  /\ stop_datetime = None
  /\ stop_loss = None
  /\ stop_profit = None
  /\ tick_data = <<>>
  /\ raw_data = <<>>
  /\ last_tick = None
  /\ data_position = None
  /\ now = 0
  /\ orders = <<>>
  /\ filled = 0
  /\ calls = 0
  /\ call = NoCall
  /\ last_ok = 0
  /\ failed = FALSE
  /\ followed = 0
  /\ days = 1
  /\ series \in [0..MaxObsTime -> {None} \cup {Some(p) : p \in Prices}]
  /\ hist = None
  /\ live = None

\* the series goes through the chain of setup_history
ResampleHistory ==
  /\ pc = "resample"
  /\ hist = None
  /\ hist' = Some(history_bars(series))
  /\ UNCHANGED <<pc, trader, stop_stream, config, days, series, live, bars,
                 data_position, now, broker, calls, call, ghost>>

\* the series goes through the chain of on_success
ResampleLive ==
  /\ pc = "resample"
  /\ live = None
  /\ live' = Some(live_bars(series))
  /\ UNCHANGED <<pc, trader, stop_stream, config, days, series, hist, bars,
                 data_position, now, broker, calls, call, ghost>>

NextResample ==
  \/ ResampleHistory
  \/ ResampleLive

SpecResample == InitResample /\ [][NextResample]_vars

----------------------------------------------------------------------------
(* Properties *)

\* the call just made was trade(), directly or at a bar close in on_success
Traded == call.d # None

\* C1: for every current position c and desired position d, trade() sends
\* at most one order, of signed size (d - c) * units and none when that is
\* zero; a reversal is one order of 2 * units.
C1_TradeSingleOrder ==
  Traded =>
    LET size == (Val(call.d) - call.pos0) * Units
    IN call.orders = IF size = 0 THEN <<>> ELSE <<size>>

C1_Witness ==
  /\ Traded
  /\ call.pos0 = 1
  /\ call.d = Some(-1)
  /\ call.orders = <<-(2 * Units)>>

\* C2: when the order of a call fails (create_order raises or returns an
\* error result), _position and the ledger are as before the call, the call
\* ends in the exception (which ends the stream when it came from a tick),
\* and the call sent no second order.
C2_FailedOrderLeavesState ==
  Failure(call.answer) =>
    /\ position = call.pos0
    /\ Len(profits) = call.len0
    /\ profit = call.profit0
    /\ call.raised
    /\ Len(call.orders) = 1
    /\ (call.op = "on_success" => pc = "dying")

C2_Witness ==
  /\ call.op = "on_success"
  /\ call.answer = "reject"
  /\ call.pos0 = 1
  /\ position = 1
  /\ call.raised

\* C3: in every reachable state of the whole program _position * units is
\* the net number of units filled at the broker since the session began.
C3_PositionIsNetFilled == position * Units = filled

\* C4: every reconciliation step sends orders of at most 2 * units in all,
\* and after it _position is the desired position of the most recent
\* reconciliation that succeeded (0 when none has).
C4_ReconcilerInvariant ==
  /\ SumAbs(call.orders) <= 2 * Units
  /\ position = last_ok

C4_Witness ==
  /\ Traded
  /\ Failure(call.answer)
  /\ call.d = Some(-1)
  /\ last_ok = 1
  /\ position = 1

\* C5: close_position() twice in a row (the second call follows a first one
\* that returned) from a non-flat position sends exactly one order, of size
\* -(position * units), and leaves _position = 0; called on a flat position
\* it sends no order, leaves position and ledger alone and raises nothing.
C5_CloseIdempotent ==
  /\ ( /\ call.op = "close"
       /\ call.before.op = "close"
       /\ call.before.pos0 # 0
       /\ ~call.before.raised )
     => /\ call.before.orders \o call.orders
             = <<-(call.before.pos0 * Units)>>
        /\ position = 0
        /\ ~call.raised
  /\ (call.op = "close" /\ call.pos0 = 0)
     => /\ call.orders = <<>>
        /\ position = 0
        /\ Len(profits) = call.len0
        /\ profit = call.profit0
        /\ ~call.raised

C5_Witness ==
  /\ call.op = "close"
  /\ call.before.op = "close"
  /\ call.before.pos0 = -1
  /\ call.before.orders = <<Units>>
  /\ call.orders = <<>>
  /\ position = 0

\* C6: trade() with the desired position equal to the current one sends no
\* order and leaves _position, _profits and _profit as they were.
C6_TradeNoOp ==
  (Traded /\ call.d = Some(call.pos0)) =>
    /\ call.orders = <<>>
    /\ position = call.pos0
    /\ Len(profits) = call.len0
    /\ profit = call.profit0
    /\ ~call.raised

C6_Witness ==
  /\ Traded
  /\ call.pos0 = 1
  /\ call.d = Some(1)
  /\ position = 1
  /\ Len(profits) = call.len0

\* the orders the broker has seen after the first k calls of Scenario
ScenarioOrders(k) ==
  IF k <= 1 THEN <<>>
  ELSE IF k <= 3 THEN <<Units>>
  ELSE IF k = 4 THEN <<Units, -(2 * Units)>>
  ELSE <<Units, -(2 * Units), Units>>

\* C7: from flat with every order filled, the ledger is as long as the list
\* of orders sent; the desired positions 0, 1, 1, -1, 0 with units = 100000
\* send +100000, nothing, -200000, +100000 and leave a ledger of length 3.
C7_LedgerCountsOrders ==
  /\ ~failed => Len(profits) = Len(orders)
  /\ followed >= 0 => orders = ScenarioOrders(followed)
  /\ followed = Len(Scenario) =>
       /\ orders = <<100000, -200000, 100000>>
       /\ Len(profits) = 3

C7_Witness ==
  /\ followed = Len(Scenario)
  /\ Len(profits) = 3
  /\ position = 0

\* the stop conditions of a tick, on the profit the tick found
DeadlineHit == stop_datetime # None /\ now >= Val(stop_datetime)
BelowFloor == stop_loss # None /\ call.profit0 < Val(stop_loss)
AboveCeiling == stop_profit # None /\ call.profit0 > Val(stop_profit)
AtFloor == stop_loss # None /\ call.profit0 = Val(stop_loss)
AtCeiling == stop_profit # None /\ call.profit0 = Val(stop_profit)

\* C8: a tick takes at most one stop branch and sends at most one flatten
\* order; the deadline wins over the loss floor and the loss floor over the
\* profit ceiling, and a branch is taken only when its own condition holds.
\* With deadline 3, floor -100, ceiling 200 and profit -150 at time 2 the
\* loss floor is the branch taken.
C8_StopPriority ==
  call.op = "on_success" =>
    /\ Len(call.orders) <= 1
    /\ DeadlineHit => call.reason = "deadline"
    /\ call.reason = "deadline" => DeadlineHit
    /\ call.reason = "loss" => (~DeadlineHit /\ BelowFloor)
    /\ call.reason = "profit" => (~DeadlineHit /\ ~BelowFloor /\ AboveCeiling)
    /\ (~DeadlineHit /\ BelowFloor /\ Val(stop_loss) # 0)
         => call.reason = "loss"
    /\ call.reason # "none" =>
         /\ stop_stream
         /\ call.orders = IF call.pos0 = 0 THEN <<>>
                          ELSE <<-(call.pos0 * Units)>>
    /\ ( /\ stop_datetime = Some(3)
         /\ stop_loss = Some(-100)
         /\ stop_profit = Some(200)
         /\ call.profit0 = -150
         /\ now = 2 )
       => call.reason = "loss"

C8_Witness ==
  /\ call.op = "on_success"
  /\ stop_datetime = Some(3)
  /\ stop_loss = Some(-100)
  /\ stop_profit = Some(200)
  /\ call.profit0 = -150
  /\ now = 2
  /\ call.reason = "loss"

\* C9: a tick stops whenever the profit it finds is at or below the
\* configured loss floor, or at or above the configured profit ceiling.
C9_StopAtThreshold ==
  call.op = "on_success" =>
    ((BelowFloor \/ AtFloor \/ AboveCeiling \/ AtCeiling)
       => call.reason # "none")

\* C10: a stop check is skipped only when its field is None: with a floor or
\* ceiling of any value, 0 included, a profit beyond it stops the tick, and so
\* does a deadline that has passed.
C10_ConfiguredChecksRun ==
  call.op = "on_success" =>
    ((DeadlineHit \/ BelowFloor \/ AboveCeiling) => call.reason # "none")

\* the call just made was a tick on which a stop branch was taken
Stopped == call.op = "on_success" /\ call.reason # "none"

\* C11: a tick on which a stop fires flattens in that same call (one order
\* of -(position * units), none when flat) and sets stop_stream; the tick is
\* not processed further: buffer, bars, _last_tick and the desired position
\* stay as they were, the strategy is not evaluated and trade() not called.
\* When the flatten order fills the call ends flat and the stream is over.
C11_StopFlattensAndReturns ==
  [][(calls' = calls + 1 /\ call'.reason # "none") =>
       /\ stop_stream'
       /\ call'.orders = IF position = 0 THEN <<>>
                         ELSE <<-(position * Units)>>
       /\ call'.d = None
       /\ call'.bars = 0
       /\ UNCHANGED <<bars, data_position>>
       /\ pc' # "stream"
       /\ (~Failure(call'.answer) => (position' = 0 /\ pc' = "live"))]_vars

C11_Witness ==
  /\ Stopped
  /\ call.reason = "deadline"
  /\ call.pos0 = 1
  /\ call.answer = "fill"
  /\ position = 0
  /\ stop_stream
  /\ tick_data # <<>>

\* C12 as stated: one call of on_success appends at most one bar.
C12_AtMostOneBar == call.op = "on_success" => call.bars <= 1

\* C12 amended: one call of on_success appends at most one bar per bar
\* length elapsed since _last_tick, floor((t - _last_tick) / bar_length) bars:
\* one while the gap is under two bar lengths, several when it spans several.
C12_AtMostOneBarPerInterval ==
  [][(pc = "stream" /\ calls' = calls + 1) =>
       /\ Len(raw_data') >= Len(raw_data)
       /\ Len(raw_data') - Len(raw_data)
            <= (now' - Val(last_tick)) \div BarLength]_vars

C12_Witness ==
  /\ call.op = "on_success"
  /\ call.bars = 2
  /\ Len(raw_data) = 3

\* the tick just handled went through the aggregator (no stop branch taken)
Aggregated == call.op = "on_success" /\ call.reason = "none"

\* the bars on_success has appended since live streaming began; raw_data[1]
\* is the last bar of the history, the first boundary
LiveBars == Len(raw_data) - 1

\* C13: after a tick that no stop cut short, the number of bars appended
\* since streaming began is floor((tick time - first boundary) / bar_length),
\* also when the first live tick comes a bar length or more after the boundary.
C13_BarCount ==
  Aggregated => LiveBars = (now - raw_data[1]) \div BarLength

\* how many times the call just made invoked define_strategy (and trade)
Evaluations == IF call.d # None THEN 1 ELSE 0

\* C14: the strategy is evaluated exactly once per closed bar: a tick
\* evaluates it as many times as it appended bars.
C14_OneEvaluationPerBar == Aggregated => Evaluations = call.bars

\* C15: a turn of setup_history that finds the newest bar a bar length or
\* more behind the clock retries with a larger lookback (so that the retries
\* can be counted out and end in a failure), and a turn that succeeds found
\* the gap below one bar length.
C15_RetryExpandsLookback ==
  [][pc = "history" =>
       /\ pc' = "history" => days' > days
       /\ pc' = "stream" => now' - Val(last_tick') < BarLength]_vars

\* C16: a stop leads to at most one flatten order over the session: once a
\* stop has fired and its flatten went through, no further tick is handled
\* (so no trade() order follows) and the cleanup in __del__ sends no order.
C16_OneFlattenPerStop ==
  /\ stop_stream => pc # "stream"
  /\ (stop_stream /\ call.op = "del" /\ ~call.before.raised)
       => call.orders = <<>>

\* strictly increasing time index
Increasing(s) == \A i \in 1..(Len(s) - 1) : s[i] < s[i + 1]

\* C17: the bar series is append-only and strictly increasing in time: every
\* on_success call keeps the bars already closed as they were, and the series
\* it leaves has strictly increasing timestamps, so no interval's bar appears
\* twice.
C17_AppendOnlyIncreasing ==
  [][(pc = "stream" /\ calls' = calls + 1) =>
       /\ Len(raw_data') >= Len(raw_data)
       /\ SubSeq(raw_data', 1, Len(raw_data)) = raw_data
       /\ Increasing(raw_data')]_vars

C17_Witness ==
  /\ call.op = "on_success"
  /\ call.bars = 1
  /\ Len(raw_data) = 3
  /\ Increasing(raw_data)

\* C18: after every on_success call that does not stop, every buffered tick
\* lies in [_last_tick, _last_tick + bar_length), and after a bar-closing
\* call the buffer holds exactly the triggering tick.
C18_BufferWithinOneBar ==
  Aggregated =>
    /\ \A i \in 1..Len(tick_data) :
         /\ Val(last_tick) <= tick_data[i]
         /\ tick_data[i] < Val(last_tick) + BarLength
    /\ call.d # None => tick_data = <<now>>

\* both chains have been applied to the series
Resampled == pc = "resample" /\ hist # None /\ live # None

\* C19: for the same series of timestamped mid prices the bars of
\* setup_history's resampling and of on_success's resampling have the same
\* timestamps and values, bins with no observation included, and the
\* backfill leaves out nothing but its last bar.
C19_SameFillPolicy == Resampled => Val(hist) = Val(live)

\* C20: errors of the flatten attempt are swallowed on the cleanup path
\* only: __del__ ends without raising whatever close_position does (a failed
\* flatten is printed and leaves _position as it was, a successful one leaves
\* it 0), while an order failure inside on_success, from trade() or from the
\* close_position of a stop, leaves the call by the exception, unprinted.
C20_SwallowOnlyInCleanup ==
  /\ call.op = "del" =>
       /\ pc = "exit"
       /\ call.logged = call.raised
       /\ call.raised = Failure(call.answer)
       /\ position = IF call.raised THEN call.pos0 ELSE 0
  /\ (call.op = "on_success" /\ Failure(call.answer)) =>
       /\ call.raised
       /\ ~call.logged
       /\ pc = "dying"

C20_Witness ==
  /\ call.op = "del"
  /\ call.raised
  /\ call.logged
  /\ pc = "exit"
  /\ call.pos0 = 1
  /\ position = 1
  /\ call.before.op = "on_success"
  /\ call.before.raised

====
